---- MODULE Spec2Model ----
(***************************************************************************)
(* State-machine model of the Android MCP server: configuration loading    *)
(* (server.py), device selection in AdbDeviceManager.__init__ and the      *)
(* device operations of AdbDeviceManager (adbdevicemanager.py).            *)
(*                                                                         *)
(* A Python str is modelled as a sequence of one-character strings, so     *)
(* that startswith, slicing, strip, repr and substring tests are computed  *)
(* character by character, as the interpreter computes them.               *)
(***************************************************************************)
EXTENDS Integers, Sequences, FiniteSets, TLC

VARIABLES
    pc,                   \* position of the process
    adb_run,              \* environment: outcome of running ["adb", "version"]
    connected,            \* environment: serials the bridge reports, in its order
    changes,              \* environment: number of connect/disconnect events so far
    config_file,          \* config.yaml as read by server.py
    server_device_name,   \* server.py global device_name
    device_name,          \* AdbDeviceManager.__init__ argument
    exit_on_error,        \* AdbDeviceManager.__init__ argument
    init_calls,           \* number of times AdbDeviceManager.__init__ was entered
    enumerations,         \* number of get_available_devices() calls made
    available_devices,    \* __init__ local
    selected_device_name, \* __init__ local
    device,               \* self.device
    stdout,               \* messages printed to sys.stdout
    stderr,               \* messages printed to sys.stderr
    exit_status,          \* status given to sys.exit (0 while none was given)
    error,                \* exception that left the running code
    last_call,            \* the last tool call: its name, argument and what the bridge answered
    shell_log,            \* commands handed to self.device.shell by the last call
    result,               \* outcome of the last tool call
    task,                 \* per caller: its get_uilayout / get_screenshot call, step by step
    remote,               \* files on the device: /sdcard/window_dump.xml, /sdcard/screenshot.png
    local,                \* files in the working directory of the process
    registered,           \* tools registered with the FastMCP instance
    transport             \* transport the server runs ("none" while it runs none)

vars == << pc, adb_run, connected, changes, config_file, server_device_name,
           device_name, exit_on_error, init_calls, enumerations,
           available_devices,
           selected_device_name, device, stdout, stderr, exit_status, error,
           last_call, shell_log, result, task, remote, local, registered,
           transport >>

-----------------------------------------------------------------------------
(* Bounds of the model *)

\* longest list of connected devices
MaxDevices == 2

\* longest device.name string in config.yaml
MaxNameLen == 2

\* connect/disconnect events during one run
MaxChanges == 1

\* pieces (lines, newlines, blanks) a command's output is put together from
MaxPieces == 3

\* node elements in one dump of the screen
MaxNodes == 2

-----------------------------------------------------------------------------
(* Python str operations *)

\* str.startswith(p)
StartsWith(s, p) == Len(s) >= Len(p) /\ SubSeq(s, 1, Len(p)) = p

\* s[n:]
DropFirst(s, n) == IF n >= Len(s) THEN << >> ELSE SubSeq(s, n + 1, Len(s))

\* t in s, for two str
Contains(s, t) ==
    \E i \in 0..(Len(s) - Len(t)) : SubSeq(s, i + 1, i + Len(t)) = t

\* x in l, for a list l
In(x, l) == \E i \in 1..Len(l) : l[i] = x

\* characters str.strip() removes
Whitespace == {" ", "\t", "\n", "\r"}

RECURSIVE LStrip(_)
LStrip(s) ==
    IF s # << >> /\ Head(s) \in Whitespace THEN LStrip(Tail(s)) ELSE s

RECURSIVE RStrip(_)
RStrip(s) ==
    IF s # << >> /\ s[Len(s)] \in Whitespace
    THEN RStrip(SubSeq(s, 1, Len(s) - 1))
    ELSE s

\* str.strip()
Strip(s) == RStrip(LStrip(s))

\* the quote repr() puts around a str: double quotes only when the str holds
\* a single quote and no double quote
QuoteFor(s) ==
    IF (\E i \in 1..Len(s) : s[i] = "'") /\ ~(\E i \in 1..Len(s) : s[i] = "\"")
    THEN "\""
    ELSE "'"

\* repr() of one character inside quotes q
ReprChar(c, q) ==
    IF c = "\\" THEN << "\\", "\\" >>
    ELSE IF c = q THEN << "\\", c >>
    ELSE IF c = "\t" THEN << "\\", "t" >>
    ELSE IF c = "\n" THEN << "\\", "n" >>
    ELSE << c >>

RECURSIVE ReprBody(_, _)
ReprBody(s, q) ==
    IF s = << >> THEN << >> ELSE ReprChar(Head(s), q) \o ReprBody(Tail(s), q)

\* repr(s) for a str s
Repr(s) == << QuoteFor(s) >> \o ReprBody(s, QuoteFor(s)) \o << QuoteFor(s) >>

RECURSIVE ReprItems(_)
ReprItems(l) ==
    IF l = << >> THEN << >>
    ELSE IF Len(l) = 1 THEN Repr(l[1])
    ELSE Repr(l[1]) \o << ",", " " >> \o ReprItems(Tail(l))

\* str(l) for a list l of str, as an f-string renders {l}
ReprList(l) == << "[" >> \o ReprItems(l) \o << "]" >>

\* an optional str: None, or a str
None == [some |-> FALSE, s |-> << >>]

Some(s) == [some |-> TRUE, s |-> s]

\* truth value of an optional str (None and "" are false)
Truthy(o) == o.some /\ o.s # << >>

\* s[a:b] for 0 <= a <= b
Slice(s, a, b) == SubSeq(s, a + 1, IF b > Len(s) THEN Len(s) ELSE b)

\* s.find(t): the lowest index (from 0) where t occurs in s, -1 when none
Find(s, t) ==
    LET found == {i \in 0..(Len(s) - Len(t)) : \A j \in 1..Len(t) : s[i + j] = t[j]}
    IN IF found = {} THEN -1
       ELSE CHOOSE i \in found : \A k \in found : i <= k

\* s.split("\n")
RECURSIVE SplitLines(_)
SplitLines(s) ==
    LET i == Find(s, << "\n" >>)
    IN IF i = -1 THEN << s >>
       ELSE << Slice(s, 0, i) >> \o SplitLines(DropFirst(s, i + 1))

\* sep.join(l)
RECURSIVE Join(_, _)
Join(sep, l) ==
    IF l = << >> THEN << >>
    ELSE IF Len(l) = 1 THEN l[1]
    ELSE l[1] \o sep \o Join(sep, Tail(l))

-----------------------------------------------------------------------------
(* String literals of the source *)

\* "config.yaml"
CONFIG_FILE ==
    << "c","o","n","f","i","g",".","y","a","m","l" >>

\* "config.yaml.example"
CONFIG_FILE_EXAMPLE ==
    << "c","o","n","f","i","g",".","y","a","m","l",".","e","x","a","m","p","l","e" >>

\* "Loaded config from "
LoadedConfigFrom ==
    << "L","o","a","d","e","d"," ","c","o","n","f","i","g"," ","f","r","o","m"," " >>

\* "Configured device: "
ConfiguredDevice ==
    << "C","o","n","f","i","g","u","r","e","d"," ","d","e","v","i","c","e",":"," " >>

\* "No device specified in config, will auto-select if only one device connected"
NoDeviceInConfigNotice ==
    << "N","o"," ","d","e","v","i","c","e"," ","s","p","e","c","i","f","i","e","d"," ",
       "i","n"," ","c","o","n","f","i","g",","," ","w","i","l","l"," ","a","u","t","o",
       "-","s","e","l","e","c","t"," ","i","f"," ","o","n","l","y"," ","o","n","e"," ",
       "d","e","v","i","c","e"," ","c","o","n","n","e","c","t","e","d" >>

\* "Error loading config file "
ErrorLoadingConfig ==
    << "E","r","r","o","r"," ","l","o","a","d","i","n","g"," ","c","o","n","f","i","g",
       " ","f","i","l","e"," " >>

\* "Please check the format of your config file or recreate it from "
PleaseCheckFormat ==
    << "P","l","e","a","s","e"," ","c","h","e","c","k"," ","t","h","e"," ","f","o","r",
       "m","a","t"," ","o","f"," ","y","o","u","r"," ","c","o","n","f","i","g"," ","f",
       "i","l","e"," ","o","r"," ","r","e","c","r","e","a","t","e"," ","i","t"," ","f",
       "r","o","m"," " >>

\* "Config file "
ConfigFilePrefix ==
    << "C","o","n","f","i","g"," ","f","i","l","e"," " >>

\* " not found, using auto-selection for device"
NotFoundAutoSelection ==
    << " ","n","o","t"," ","f","o","u","n","d",","," ","u","s","i","n","g"," ","a","u",
       "t","o","-","s","e","l","e","c","t","i","o","n"," ","f","o","r"," ","d","e","v",
       "i","c","e" >>

\* "adb is not installed or not in PATH. Please install adb and ensure it is in your PATH."
AdbNotInstalledMsg ==
    << "a","d","b"," ","i","s"," ","n","o","t"," ","i","n","s","t","a","l","l","e","d",
       " ","o","r"," ","n","o","t"," ","i","n"," ","P","A","T","H","."," ","P","l","e",
       "a","s","e"," ","i","n","s","t","a","l","l"," ","a","d","b"," ","a","n","d"," ",
       "e","n","s","u","r","e"," ","i","t"," ","i","s"," ","i","n"," ","y","o","u","r",
       " ","P","A","T","H","." >>

\* "No devices connected. Please connect a device and try again."
NoDevicesMsg ==
    << "N","o"," ","d","e","v","i","c","e","s"," ","c","o","n","n","e","c","t","e","d",
       "."," ","P","l","e","a","s","e"," ","c","o","n","n","e","c","t"," ","a"," ","d",
       "e","v","i","c","e"," ","a","n","d"," ","t","r","y"," ","a","g","a","i","n","." >>

\* "Device "
DevicePrefix ==
    << "D","e","v","i","c","e"," " >>

\* " not found. Available devices: "
NotFoundAvailable ==
    << " ","n","o","t"," ","f","o","u","n","d","."," ","A","v","a","i","l","a","b","l",
       "e"," ","d","e","v","i","c","e","s",":"," " >>

\* "No device specified, automatically selected: "
AutoSelectedPrefix ==
    << "N","o"," ","d","e","v","i","c","e"," ","s","p","e","c","i","f","i","e","d",",",
       " ","a","u","t","o","m","a","t","i","c","a","l","l","y"," ","s","e","l","e","c",
       "t","e","d",":"," " >>

\* "Multiple devices connected: "
MultiplePrefix ==
    << "M","u","l","t","i","p","l","e"," ","d","e","v","i","c","e","s"," ","c","o","n",
       "n","e","c","t","e","d",":"," " >>

\* ". Please specify a device in config.yaml or connect only one device."
MultipleSuffix ==
    << "."," ","P","l","e","a","s","e"," ","s","p","e","c","i","f","y"," ","a"," ","d",
       "e","v","i","c","e"," ","i","n"," ","c","o","n","f","i","g",".","y","a","m","l",
       " ","o","r"," ","c","o","n","n","e","c","t"," ","o","n","l","y"," ","o","n","e",
       " ","d","e","v","i","c","e","." >>

\* " object has no attribute "
ObjectHasNoAttribute ==
    << " ","o","b","j","e","c","t"," ","h","a","s"," ","n","o"," ","a","t","t","r","i",
       "b","u","t","e"," " >>

\* "adb shell "
PrefixAdbShell ==
    << "a","d","b"," ","s","h","e","l","l"," " >>

\* "adb "
PrefixAdb ==
    << "a","d","b"," " >>

\* "YAMLError"
YamlErrorText ==
    << "Y","A","M","L","E","r","r","o","r" >>

\* "OSError"
OSErrorText ==
    << "O","S","E","r","r","o","r" >>

\* "get"
GetAttr ==
    << "g","e","t" >>

\* "strip"
StripAttr ==
    << "s","t","r","i","p" >>

-----------------------------------------------------------------------------
(* Configuration loading: server.py, lines 16-47 *)

\* A value yaml.safe_load can return: its type t, its characters s when it
\* is a str, and its size n (length of a str, list or mapping; the number
\* itself for an int or a bool).
Val(t, s, n) == [t |-> t, s |-> s, n |-> n]

NullV == Val("null", << >>, 0)

StrV(s) == Val("str", s, Len(s))

IntV(n) == Val("int", << >>, n)

BoolV(n) == Val("bool", << >>, n)

ListV(n) == Val("list", << >>, n)

MapV(n) == Val("map", << >>, n)

\* truth value Python gives a loaded value
ValTruthy(v) == v.t # "null" /\ v.n # 0

\* type(v).__name__
TypeName(t) ==
    CASE t = "str" -> << "s", "t", "r" >>
      [] t = "int" -> << "i", "n", "t" >>
      [] t = "bool" -> << "b", "o", "o", "l" >>
      [] t = "list" -> << "l", "i", "s", "t" >>
      [] t = "map" -> << "d", "i", "c", "t" >>
      [] OTHER -> << "N", "o", "n", "e", "T", "y", "p", "e" >>

\* str(e) of the AttributeError for v.attr
NoAttribute(v, attr) ==
    << "'" >> \o TypeName(v.t) \o << "'" >> \o ObjectHasNoAttribute
        \o << "'" >> \o attr \o << "'" >>

\* config.yaml: whether it exists and can be read, whether its text parses,
\* the parsed document, its "device" entry and that entry's "name" entry.
Cfg(file, parses, top, hasDevice, dev, hasName, name) ==
    [file |-> file, parses |-> parses, top |-> top, hasDevice |-> hasDevice,
     device |-> dev, hasName |-> hasName, name |-> name]

\* no config file was read
CfgUnread == Cfg("unread", TRUE, NullV, FALSE, NullV, FALSE, NullV)

CfgMissing == Cfg("missing", TRUE, NullV, FALSE, NullV, FALSE, NullV)

CfgUnreadable == Cfg("unreadable", TRUE, NullV, FALSE, NullV, FALSE, NullV)

CfgUnparsable == Cfg("present", FALSE, NullV, FALSE, NullV, FALSE, NullV)

NameChars == {"a", " ", "\t"}

NameStrings == UNION {[1..n -> NameChars] : n \in 0..MaxNameLen}

\* loaded values that are neither null, a str nor a mapping
OtherValues == {BoolV(0), BoolV(1), IntV(0), IntV(1), ListV(0), ListV(1)}

NonMapValues == {NullV, StrV(<< >>), StrV(<< "a" >>)} \cup OtherValues

NameValues ==
    {NullV, MapV(0), MapV(1)} \cup OtherValues \cup {StrV(s) : s \in NameStrings}

ConfigFiles ==
    {CfgMissing, CfgUnreadable, CfgUnparsable}
    \cup {Cfg("present", TRUE, top, FALSE, NullV, FALSE, NullV) :
              top \in NonMapValues \cup {MapV(0), MapV(1)}}
    \cup {Cfg("present", TRUE, MapV(1), TRUE, d, FALSE, NullV) :
              d \in NonMapValues \cup {MapV(0), MapV(1)}}
    \cup {Cfg("present", TRUE, MapV(1), TRUE, MapV(1), TRUE, v) :
              v \in NameValues}

\* config = yaml.safe_load(f.read()) or {}
ParsedConfig(cfg) == IF ValTruthy(cfg.top) THEN cfg.top ELSE MapV(0)

\* device_config = config.get("device", {})
DeviceConfig(cfg) ==
    IF ValTruthy(cfg.top) /\ cfg.hasDevice THEN cfg.device ELSE MapV(0)

\* configured_device_name = device_config.get("name") if device_config else None
ConfiguredDeviceName(cfg) ==
    IF ValTruthy(DeviceConfig(cfg)) /\ cfg.hasName THEN cfg.name ELSE NullV

Raised(text) == [raised |-> TRUE, text |-> text, name |-> None]

Loaded(name) == [raised |-> FALSE, text |-> << >>, name |-> name]

\* DeviceNameOf keeping the name as written, whitespace included
DeviceNameOf_NoStrip(c) ==
    IF ValTruthy(c) /\ Strip(c.s) # << >> THEN Some(c.s) ELSE None

\* if configured_device_name and configured_device_name.strip():
\*     device_name = configured_device_name.strip()
DeviceNameOf(c) ==
    IF ValTruthy(c) /\ Strip(c.s) # << >> THEN Some(Strip(c.s)) ELSE None

\* the try block: the exception it raises, or the device_name it leaves
TryLoad(cfg) ==
    IF cfg.file = "unreadable" THEN Raised(OSErrorText)
    ELSE IF ~cfg.parses THEN Raised(YamlErrorText)
    ELSE IF ParsedConfig(cfg).t # "map"
    THEN Raised(NoAttribute(ParsedConfig(cfg), GetAttr))
    ELSE IF ValTruthy(DeviceConfig(cfg)) /\ DeviceConfig(cfg).t # "map"
    THEN Raised(NoAttribute(DeviceConfig(cfg), GetAttr))
    ELSE IF ValTruthy(ConfiguredDeviceName(cfg))
            /\ ConfiguredDeviceName(cfg).t # "str"
    THEN Raised(NoAttribute(ConfiguredDeviceName(cfg), StripAttr))
    ELSE Loaded(DeviceNameOf(ConfiguredDeviceName(cfg)))

\* the module-level statements of server.py that load config.yaml
LoadConfig ==
    /\ pc = "start"
    /\ \E cfg \in ConfigFiles :
        /\ config_file' = cfg
        /\ IF cfg.file = "missing"
           THEN /\ stdout' = Append(stdout,
                        ConfigFilePrefix \o CONFIG_FILE \o NotFoundAutoSelection)
                /\ pc' = "config_loaded"
                /\ UNCHANGED << server_device_name, stderr, exit_status >>
           ELSE IF TryLoad(cfg).raised
           THEN /\ stderr' = stderr \o
                        << ErrorLoadingConfig \o CONFIG_FILE \o << ":", " " >>
                               \o TryLoad(cfg).text,
                           PleaseCheckFormat \o CONFIG_FILE_EXAMPLE >>
                /\ exit_status' = 1
                /\ pc' = "exited"
                /\ UNCHANGED << server_device_name, stdout >>
           ELSE /\ server_device_name' = TryLoad(cfg).name
                /\ stdout' = stdout \o
                        << LoadedConfigFrom \o CONFIG_FILE,
                           IF TryLoad(cfg).name.some
                           THEN ConfiguredDevice \o TryLoad(cfg).name.s
                           ELSE NoDeviceInConfigNotice >>
                /\ pc' = "config_loaded"
                /\ UNCHANGED << stderr, exit_status >>
    /\ UNCHANGED << adb_run, connected, changes, device_name, exit_on_error,
                    init_calls, enumerations, available_devices, selected_device_name,
                    device, error, last_call, shell_log, result >>
    /\ UNCHANGED << task, remote, local, registered, transport >>

-----------------------------------------------------------------------------
(* Device selection: AdbDeviceManager.__init__, adbdevicemanager.py *)

\* serials the bridge can report
Serials == {<< "a" >>, << "b" >>, << "a", "\\", "b" >>}

DeviceLists == UNION {[1..n -> Serials] : n \in 0..MaxDevices}

\* outcomes of subprocess.run(["adb", "version"], check=True, ...): it
\* returns, raises CalledProcessError, raises FileNotFoundError, or raises
\* another OSError (a file that may not be executed)
AdbRuns == {"ok", "nonzero", "missing", "denied"}

\* CheckAdbInstalled catching FileNotFoundError only, with check=False
CheckAdbInstalled_IgnoreExitStatus(run) == run # "missing"

\* check_adb_installed(): the except clause names CalledProcessError and
\* FileNotFoundError
CheckAdbInstalled(run) == run = "ok"

\* the exception check_adb_installed() lets through
CheckAdbRaises(run) == run \notin {"ok", "nonzero", "missing"}

\* get_available_devices()
GetAvailableDevices == connected

NoError == [raised |-> FALSE, type |-> "", msg |-> << >>]

Exception(type, msg) == [raised |-> TRUE, type |-> type, msg |-> msg]

\* NotFoundMsg beginning with the requested name
NotFoundMsg_NameFirst(name, devs) ==
    name \o NotFoundAvailable \o ReprList(devs)

\* f"Device {device_name} not found. Available devices: {available_devices}"
NotFoundMsg(name, devs) ==
    DevicePrefix \o name \o NotFoundAvailable \o ReprList(devs)

\* f"Multiple devices connected: {available_devices}. Please specify ..."
MultipleMsg(devs) == MultiplePrefix \o ReprList(devs) \o MultipleSuffix

\* f"No device specified, automatically selected: {selected_device_name}"
AutoSelectedMsg(name) == AutoSelectedPrefix \o name

Chosen(name, notice) ==
    [ok |-> TRUE, name |-> name, notice |-> notice, msg |-> << >>]

Refused(msg) == [ok |-> FALSE, name |-> None, notice |-> FALSE, msg |-> msg]

\* SelectDevice testing "device_name is not None" in place of its truth value
SelectDevice_NoneOnly(name, devs) ==
    IF name.some
    THEN IF ~In(name.s, devs)
         THEN Refused(NotFoundMsg(name.s, devs))
         ELSE Chosen(name, FALSE)
    ELSE IF Len(devs) = 1 THEN Chosen(Some(devs[1]), TRUE)
    ELSE IF Len(devs) > 1 THEN Refused(MultipleMsg(devs))
    ELSE Chosen(None, FALSE)

\* SelectDevice taking the first device once the requested name was found
SelectDevice_FirstDevice(name, devs) ==
    IF Truthy(name)
    THEN IF ~In(name.s, devs)
         THEN Refused(NotFoundMsg(name.s, devs))
         ELSE Chosen(Some(devs[1]), FALSE)
    ELSE IF Len(devs) = 1 THEN Chosen(Some(devs[1]), TRUE)
    ELSE IF Len(devs) > 1 THEN Refused(MultipleMsg(devs))
    ELSE Chosen(None, FALSE)

\* lines 36-59, for a non-empty list: the name selected, or the error message
SelectDevice(name, devs) ==
    IF Truthy(name)
    THEN IF ~In(name.s, devs)
         THEN Refused(NotFoundMsg(name.s, devs))
         ELSE Chosen(name, FALSE)
    ELSE IF Len(devs) = 1 THEN Chosen(Some(devs[1]), TRUE)
    ELSE IF Len(devs) > 1 THEN Refused(MultipleMsg(devs))
    ELSE Chosen(None, FALSE)

\* Fail raising whatever the flag is
Fail_AlwaysRaise(flag, msg) ==
    /\ error' = Exception("RuntimeError", msg)
    /\ pc' = "raised"
    /\ UNCHANGED << stderr, exit_status >>

\* if exit_on_error: print(error_msg, file=sys.stderr); sys.exit(1)
\* else: raise RuntimeError(error_msg)
Fail(flag, msg) ==
    IF flag
    THEN /\ stderr' = Append(stderr, msg)
         /\ exit_status' = 1
         /\ pc' = "exited"
         /\ UNCHANGED error
    ELSE /\ error' = Exception("RuntimeError", msg)
         /\ pc' = "raised"
         /\ UNCHANGED << stderr, exit_status >>

\* __init__(device_name, exit_on_error), lines 19-61
Construct(name, flag) ==
    /\ init_calls' = init_calls + 1
    /\ device_name' = name
    /\ exit_on_error' = flag
    /\ IF CheckAdbRaises(adb_run)
       THEN /\ error' = Exception("PermissionError", << >>)
            /\ pc' = "raised"
            /\ UNCHANGED << enumerations, available_devices,
                            selected_device_name, stdout, stderr, exit_status >>
       ELSE IF ~CheckAdbInstalled(adb_run)
       THEN /\ Fail(flag, AdbNotInstalledMsg)
            /\ UNCHANGED << enumerations, available_devices,
                            selected_device_name, stdout >>
       ELSE /\ enumerations' = enumerations + 1
            /\ available_devices' = GetAvailableDevices
            /\ IF GetAvailableDevices = << >>
               THEN /\ Fail(flag, NoDevicesMsg)
                    /\ UNCHANGED << selected_device_name, stdout >>
               ELSE IF ~SelectDevice(name, GetAvailableDevices).ok
               THEN /\ Fail(flag, SelectDevice(name, GetAvailableDevices).msg)
                    /\ UNCHANGED << selected_device_name, stdout >>
               ELSE /\ selected_device_name' =
                            SelectDevice(name, GetAvailableDevices).name
                    /\ stdout' =
                         IF SelectDevice(name, GetAvailableDevices).notice
                         THEN Append(stdout, AutoSelectedMsg(
                                  SelectDevice(name, GetAvailableDevices).name.s))
                         ELSE stdout
                    /\ pc' = "selected"
                    /\ UNCHANGED << stderr, exit_status, error >>
    /\ UNCHANGED << adb_run, connected, changes, config_file,
                    server_device_name, device, last_call, shell_log, result >>
    /\ UNCHANGED << task, remote, local, registered, transport >>

\* server.py, line 52: deviceManager = AdbDeviceManager(device_name); no
\* statement of server.py catches what __init__ raises, so an exception ends
\* the process with status 1
ServerConstruct ==
    /\ pc = "config_loaded"
    /\ IF CheckAdbRaises(adb_run)
       THEN /\ init_calls' = init_calls + 1
            /\ device_name' = server_device_name
            /\ exit_on_error' = TRUE
            /\ error' = Exception("PermissionError", << >>)
            /\ stderr' = Append(stderr,
                   \* "Traceback (most recent call last):"
                   << "T","r","a","c","e","b","a","c","k"," ","(","m","o","s","t"," ",
                      "r","e","c","e","n","t"," ","c","a","l","l"," ",
                      "l","a","s","t",")",":" >>)
            /\ exit_status' = 1
            /\ pc' = "exited"
            /\ UNCHANGED << enumerations, available_devices,
                            selected_device_name, stdout >>
            /\ UNCHANGED << adb_run, connected, changes, config_file,
                            server_device_name, device, last_call, shell_log,
                            result >>
            /\ UNCHANGED << task, remote, local, registered, transport >>
       ELSE Construct(server_device_name, TRUE)

\* names a caller of the class passes
NameArguments ==
    {None, Some(<< >>), Some(<< "z" >>)} \cup {Some(s) : s \in Serials}

\* a caller constructs AdbDeviceManager(device_name, exit_on_error) itself
LibraryConstruct ==
    /\ pc = "start"
    /\ \E name \in NameArguments, flag \in BOOLEAN : Construct(name, flag)

\* the bridge's set of devices changes between the enumeration of line 27
\* and the lookup of line 63
DevicesChange ==
    /\ pc = "selected"
    /\ changes < MaxChanges
    /\ changes' = changes + 1
    /\ \/ \E i \in 1..Len(connected) :
            connected' = SubSeq(connected, 1, i - 1)
                            \o SubSeq(connected, i + 1, Len(connected))
       \/ /\ Len(connected) < MaxDevices
          /\ \E s \in Serials : connected' = Append(connected, s)
    /\ UNCHANGED << pc, adb_run, config_file, server_device_name, device_name,
                    exit_on_error, init_calls, enumerations, available_devices,
                    selected_device_name, device, stdout, stderr, exit_status,
                    error, last_call, shell_log, result >>
    /\ UNCHANGED << task, remote, local, registered, transport >>

\* AdbClient().device(serial): the handle of the connected device with that
\* serial, None when the bridge reports no such device
ClientDevice(serial) == IF In(serial.s, connected) THEN serial ELSE None

\* __init__, line 63: self.device = AdbClient().device(selected_device_name)
Bind ==
    /\ pc = "selected"
    /\ device' = ClientDevice(selected_device_name)
    /\ pc' = "ready"
    /\ UNCHANGED << adb_run, connected, changes, config_file,
                    server_device_name, device_name, exit_on_error,
                    init_calls, enumerations, available_devices, selected_device_name,
                    stdout, stderr, exit_status, error, last_call,
                    shell_log, result >>
    /\ UNCHANGED << task, remote, local, registered, transport >>

-----------------------------------------------------------------------------
(* Device operations: AdbDeviceManager methods and the tools of server.py *)

\* a tool call can be made: a caller holds the constructed session, or the
\* server runs a transport
Callable == pc = "serving" \/ (pc = "ready" /\ config_file = CfgUnread)

\* pieces the command arguments are put together from
CommandPieces == {PrefixAdbShell, PrefixAdb, << "l", "s" >>}

\* the last one is "adb shell" with no space after it
Commands ==
    {<< >>} \cup CommandPieces \cup {p \o q : p, q \in CommandPieces}
        \cup {<< "a", "d", "b", " ", "s", "h", "e", "l", "l" >>}

\* texts self.device.shell returns
ShellOutputs == {<< "o", "k" >>, << " ", "x", "\n" >>}

\* what self.device.shell(command) does: returns the command's output, or
\* raises when the bridge fails
OutcomesOf(texts) ==
    {[ok |-> TRUE, text |-> t] : t \in texts} \cup {[ok |-> FALSE, text |-> << >>]}

NoCall == [op |-> "", arg |-> << >>, outcome |-> [ok |-> FALSE, text |-> << >>]]

NoResult == [done |-> FALSE, ok |-> FALSE, value |-> << >>, exc |-> ""]

Returned(value) == [done |-> TRUE, ok |-> TRUE, value |-> value, exc |-> ""]

Raises(exc) == [done |-> TRUE, ok |-> FALSE, value |-> << >>, exc |-> exc]

\* StripAdbPrefix testing the shorter prefix first
StripAdbPrefix_ShortFirst(command) ==
    IF StartsWith(command, PrefixAdb) THEN DropFirst(command, 4)
    ELSE IF StartsWith(command, PrefixAdbShell) THEN DropFirst(command, 10)
    ELSE command

\* execute_adb_shell_command, lines 118-121
StripAdbPrefix(command) ==
    IF StartsWith(command, PrefixAdbShell) THEN DropFirst(command, 10)
    ELSE IF StartsWith(command, PrefixAdb) THEN DropFirst(command, 4)
    ELSE command

\* the tool execute_adb_shell_command(command) of server.py, which calls
\* deviceManager.execute_adb_shell_command(command)
ExecuteAdbShellCommand(commands, outputs) ==
    /\ Callable
    /\ \E command \in commands, outcome \in OutcomesOf(outputs) :
        /\ last_call' = [op |-> "execute_adb_shell_command", arg |-> command,
                         outcome |-> outcome]
        /\ IF ~device.some
           THEN /\ shell_log' = << >>
                /\ result' = Raises("AttributeError")
           ELSE /\ shell_log' = << [serial |-> device.s,
                                    cmd |-> StripAdbPrefix(command)] >>
                /\ result' = IF outcome.ok THEN Returned(outcome.text)
                             ELSE Raises("RuntimeError")
    /\ UNCHANGED << pc, adb_run, connected, changes, config_file,
                    server_device_name, device_name, exit_on_error,
                    init_calls, enumerations, available_devices, selected_device_name,
                    device, stdout, stderr, exit_status, error >>
    /\ UNCHANGED << task, remote, local, registered, transport >>

\* the texts made of at most n of the given pieces
RECURSIVE ConcatsOf(_, _)
ConcatsOf(pieces, n) ==
    IF n = 0 THEN {<< >>}
    ELSE ConcatsOf(pieces, n - 1)
            \cup {p \o q : p \in pieces, q \in ConcatsOf(pieces, n - 1)}

\* "pm list packages"
PmListPackages ==
    << "p","m"," ","l","i","s","t"," ","p","a","c","k","a","g","e","s" >>

\* "package:a"
PackageA == << "p","a","c","k","a","g","e",":","a" >>

\* "package:bb"
PackageBB == << "p","a","c","k","a","g","e",":","b","b" >>

\* outputs of "pm list packages": any text of the pieces, a listing with
\* "\n" line ends, one with "\r\n" line ends, a line without "package:"
PackageOutputs ==
    ConcatsOf({PackageA, << "x", "y" >>, << "\n" >>, << " " >>}, MaxPieces)
        \cup {PackageA \o << "\n" >> \o PackageBB \o << "\n" >>,
              PackageA \o << "\r", "\n" >> \o PackageBB \o << "\r", "\n" >>,
              << "n", "o" >> \o PackageA \o << "\n" >> \o PackageBB}

\* get_packages without line 82's strip()
GetPackagesResult_NoStrip(output) ==
    LET packages == SplitLines(output)
        output_lines == [i \in 1..Len(packages) |-> DropFirst(packages[i], 8)]
    IN Join(<< "\n" >>, output_lines)

\* get_packages, lines 82-85, on the output of the shell command
GetPackagesResult(output) ==
    LET packages == SplitLines(Strip(output))
        output_lines == [i \in 1..Len(packages) |-> DropFirst(packages[i], 8)]
    IN Join(<< "\n" >>, output_lines)

\* get_packages(), called on a constructed session
GetPackages(outputs) ==
    /\ Callable
    /\ \E outcome \in OutcomesOf(outputs) :
        /\ last_call' = [op |-> "get_packages", arg |-> << >>, outcome |-> outcome]
        /\ IF ~device.some
           THEN /\ shell_log' = << >>
                /\ result' = Raises("AttributeError")
           ELSE /\ shell_log' = << [serial |-> device.s, cmd |-> PmListPackages] >>
                /\ result' = IF outcome.ok
                             THEN Returned(GetPackagesResult(outcome.text))
                             ELSE Raises("RuntimeError")
    /\ UNCHANGED << pc, adb_run, connected, changes, config_file,
                    server_device_name, device_name, exit_on_error, init_calls,
                    enumerations, available_devices, selected_device_name,
                    device, stdout, stderr, exit_status, error >>
    /\ UNCHANGED << task, remote, local, registered, transport >>

\* "dumpsys package "
DumpsysPackage ==
    << "d","u","m","p","s","y","s"," ","p","a","c","k","a","g","e"," " >>

\* "Activity Resolver Table:"
ActivityResolverTable ==
    << "A","c","t","i","v","i","t","y"," ","R","e","s","o","l","v","e","r"," ","T","a",
       "b","l","e",":" >>

\* "\n  Non-Data Actions:"
NonDataActions ==
    << "\n"," "," ","N","o","n","-","D","a","t","a"," ","A","c","t","i","o","n","s",":" >>

\* "android."
AndroidDot ==
    << "a","n","d","r","o","i","d","." >>

\* "com."
ComDot ==
    << "c","o","m","." >>

\* package names a caller passes
PackageNames == {<< "c", "o", "m", ".", "a" >>, << >>}

\* "\n  android.a"
LineAndroid == << "\n", " ", " " >> \o AndroidDot \o << "a" >>

\* "\n\tcom.b "
LineCom == << "\n", "\t" >> \o ComDot \o << "b", " " >>

\* outputs of "dumpsys package <name>": both markers followed by any text of
\* the pieces; a line that is no action; lines before each marker; no first
\* marker; no second marker; the second marker only before the first; the
\* second marker indented otherwise; a line of blanks between two actions
DumpsysOutputs ==
    {ActivityResolverTable \o NonDataActions \o body :
        body \in ConcatsOf({LineAndroid, LineCom, << "\n" >>}, MaxPieces)}
    \cup {ActivityResolverTable \o NonDataActions
              \o << "\n", " ", " ", "1", " " >> \o ComDot \o << "c" >>
              \o LineAndroid,
          ComDot \o << "p", "\n" >> \o ActivityResolverTable \o LineCom
              \o NonDataActions \o LineAndroid \o << "\n" >> \o LineCom,
          LineAndroid \o LineCom,
          ActivityResolverTable \o LineAndroid,
          NonDataActions \o LineAndroid \o << "\n" >> \o ActivityResolverTable
              \o LineCom,
          ActivityResolverTable \o << "\n", " ", " " >> \o Tail(NonDataActions)
              \o LineAndroid,
          ActivityResolverTable \o NonDataActions \o LineAndroid
              \o << "\n", " " >> \o LineCom}

\* lines 109-113: the stripped lines that start with "android." or "com."
RECURSIVE ActionLines(_)
ActionLines(lines) ==
    IF lines = << >> THEN << >>
    ELSE LET line == Strip(Head(lines))
         IN (IF StartsWith(line, AndroidDot) \/ StartsWith(line, ComDot)
             THEN << line >>
             ELSE << >>) \o ActionLines(Tail(lines))

\* get_package_action_intents with the section running to the end of the text
GetPackageActionIntentsResult_ToEndOfText(output) ==
    LET resolver_table_start == Find(output, ActivityResolverTable)
        resolver_section == DropFirst(output, resolver_table_start)
        non_data_start == Find(resolver_section, NonDataActions)
    IN IF resolver_table_start = -1 THEN << >>
       ELSE IF non_data_start = -1 THEN << >>
       ELSE ActionLines(SplitLines(DropFirst(resolver_section, non_data_start)))

\* get_package_action_intents, lines 90-114, on the output of the shell command
GetPackageActionIntentsResult(output) ==
    LET resolver_table_start == Find(output, ActivityResolverTable)
        resolver_section == DropFirst(output, resolver_table_start)
        non_data_start == Find(resolver_section, NonDataActions)
        section_end == Find(DropFirst(resolver_section, non_data_start),
                            << "\n", "\n" >>)
        non_data_section ==
            IF section_end = -1
            THEN DropFirst(resolver_section, non_data_start)
            ELSE Slice(resolver_section, non_data_start, non_data_start + section_end)
    IN IF resolver_table_start = -1 THEN << >>
       ELSE IF non_data_start = -1 THEN << >>
       ELSE ActionLines(SplitLines(non_data_section))

\* get_package_action_intents(package_name), called on a constructed session
GetPackageActionIntents(names, outputs) ==
    /\ Callable
    /\ \E package_name \in names, outcome \in OutcomesOf(outputs) :
        /\ last_call' = [op |-> "get_package_action_intents", arg |-> package_name,
                         outcome |-> outcome]
        /\ IF ~device.some
           THEN /\ shell_log' = << >>
                /\ result' = Raises("AttributeError")
           ELSE /\ shell_log' = << [serial |-> device.s,
                                    cmd |-> DumpsysPackage \o package_name] >>
                /\ result' = IF outcome.ok
                             THEN Returned(GetPackageActionIntentsResult(outcome.text))
                             ELSE Raises("RuntimeError")
    /\ UNCHANGED << pc, adb_run, connected, changes, config_file,
                    server_device_name, device_name, exit_on_error, init_calls,
                    enumerations, available_devices, selected_device_name,
                    device, stdout, stderr, exit_status, error >>
    /\ UNCHANGED << task, remote, local, registered, transport >>

-----------------------------------------------------------------------------
(* get_uilayout: the text made of the parsed dump, lines 151-187 *)

\* "Clickable element:"
ClickableElementLabel ==
    << "C","l","i","c","k","a","b","l","e"," ","e","l","e","m","e","n","t",":" >>

\* "\n  Text: "
TextLabel ==
    << "\n"," "," ","T","e","x","t",":"," " >>

\* "\n  Description: "
DescriptionLabel ==
    << "\n"," "," ","D","e","s","c","r","i","p","t","i","o","n",":"," " >>

\* "\n  Bounds: "
BoundsLabel ==
    << "\n"," "," ","B","o","u","n","d","s",":"," " >>

\* "\n  Center: ("
CenterLabel ==
    << "\n"," "," ","C","e","n","t","e","r",":"," ","(" >>

\* "No clickable elements found with text or description"
NoClickableElements ==
    << "N","o"," ","c","l","i","c","k","a","b","l","e"," ","e","l","e","m","e","n","t",
       "s"," ","f","o","u","n","d"," ","w","i","t","h"," ","t","e","x","t"," ","o","r",
       " ","d","e","s","c","r","i","p","t","i","o","n" >>

\* the characters \d matches
Digits == << "0", "1", "2", "3", "4", "5", "6", "7", "8", "9" >>

IsDigit(c) == In(c, Digits)

\* int(d) for a str d of digits
RECURSIVE IntOf(_)
IntOf(d) ==
    IF d = << >> THEN 0
    ELSE 10 * IntOf(SubSeq(d, 1, Len(d) - 1)) 
             + (CHOOSE k \in 1..10 : Digits[k] = d[Len(d)]) - 1

\* str(n) for an int n >= 0, as an f-string renders {n}
RECURSIVE Str(_)
Str(n) ==
    IF n < 10 THEN << Digits[n + 1] >>
    ELSE Str(n \div 10) \o << Digits[(n % 10) + 1] >>

\* number of characters \d+ takes at position i (from 1) of s
DigitRun(s, i) ==
    CHOOSE n \in 0..(Len(s) + 1) :
        /\ \A k \in i..(i + n - 1) : k <= Len(s) /\ IsDigit(s[k])
        /\ i + n > Len(s) \/ ~IsDigit(s[i + n])

\* an attempt to match \[(\d+),(\d+)\] at position i of s
MatchAt(s, i) ==
    LET a == DigitRun(s, i + 1)
        comma == i + 1 + a
        b == DigitRun(s, comma + 1)
        close == comma + 1 + b
    IN IF /\ s[i] = "["
          /\ a >= 1
          /\ comma <= Len(s) /\ s[comma] = ","
          /\ b >= 1
          /\ close <= Len(s) /\ s[close] = "]"
       THEN [found |-> TRUE,
             groups |-> << SubSeq(s, i + 1, comma - 1), SubSeq(s, comma + 1, close - 1) >>,
             end |-> close]
       ELSE [found |-> FALSE, groups |-> << >>, end |-> i]

\* re.findall(r"\[(\d+),(\d+)\]", s), scanning from position i
RECURSIVE FindAllFrom(_, _)
FindAllFrom(s, i) ==
    IF i > Len(s) THEN << >>
    ELSE IF MatchAt(s, i).found
    THEN << MatchAt(s, i).groups >> \o FindAllFrom(s, MatchAt(s, i).end + 1)
    ELSE FindAllFrom(s, i + 1)

NoCenter == [some |-> FALSE, x |-> 0, y |-> 0]

\* calculate_center with the centre taken from the first match alone
CalculateCenter_FirstPair(bounds_str) ==
    LET matches == FindAllFrom(bounds_str, 1)
    IN IF Len(matches) = 2
       THEN [some |-> TRUE, x |-> IntOf(matches[1][1]), y |-> IntOf(matches[1][2])]
       ELSE NoCenter

\* calculate_center(bounds_str), lines 151-159
CalculateCenter(bounds_str) ==
    LET matches == FindAllFrom(bounds_str, 1)
    IN IF Len(matches) = 2
       THEN [some |-> TRUE,
             x |-> (IntOf(matches[1][1]) + IntOf(matches[2][1])) \div 2,
             y |-> (IntOf(matches[1][2]) + IntOf(matches[2][2])) \div 2]
       ELSE NoCenter

\* a node element of the dump and the attributes the code reads; an
\* attribute the element does not carry reads as ""
Node(clickable, text, content_desc, bounds) ==
    [clickable |-> clickable, text |-> text, content_desc |-> content_desc,
     bounds |-> bounds]

\* lines 172-180: the block of one element
ElementInfo(element) ==
    LET center == CalculateCenter(element.bounds)
    IN ClickableElementLabel
        \o (IF element.text # << >> THEN TextLabel \o element.text ELSE << >>)
        \o (IF element.content_desc # << >>
            THEN DescriptionLabel \o element.content_desc
            ELSE << >>)
        \o BoundsLabel \o element.bounds
        \o (IF center.some
            THEN CenterLabel \o Str(center.x) \o << ",", " " >> \o Str(center.y)
                    \o << ")" >>
            ELSE << >>)

\* lines 164-181 with every node taken for clickable
RECURSIVE ClickableElements_AllNodes(_)
ClickableElements_AllNodes(nodes) ==
    IF nodes = << >> THEN << >>
    ELSE (IF Head(nodes).text # << >> \/ Head(nodes).content_desc # << >>
          THEN << ElementInfo(Head(nodes)) >>
          ELSE << >>) \o ClickableElements_AllNodes(Tail(nodes))

\* lines 164-181: the blocks of the nodes that root.findall(
\* ".//node[@clickable='true']") yields and that have a text or a description
RECURSIVE ClickableElements(_)
ClickableElements(nodes) ==
    IF nodes = << >> THEN << >>
    ELSE (IF /\ Head(nodes).clickable = "true"
             /\ Head(nodes).text # << >> \/ Head(nodes).content_desc # << >>
          THEN << ElementInfo(Head(nodes)) >>
          ELSE << >>) \o ClickableElements(Tail(nodes))

\* lines 183-187
UiLayoutResult(nodes) ==
    IF ClickableElements(nodes) = << >>
    THEN NoClickableElements
    ELSE Join(<< "\n", "\n" >>, ClickableElements(nodes))

-----------------------------------------------------------------------------
(* get_uilayout and get_screenshot, one device step at a time:             *)
(* adbdevicemanager.py, lines 125-146 and 161-162; server.py, lines 103-110 *)

\* the variables that the steps of a tool call leave alone
process_vars ==
    << pc, adb_run, connected, changes, config_file, server_device_name,
       device_name, exit_on_error, init_calls, enumerations, available_devices,
       selected_device_name, device, stdout, stderr, exit_status, error,
       last_call, shell_log, result, registered, transport >>

\* callers (threads, or requests of the transport) that use the one session
Callers == {"first", "second"}

\* what a file holds: for window_dump.xml, whether it parses and the node
\* elements below its root in document order
Content(wellformed, nodes) == [wellformed |-> wellformed, nodes |-> nodes]

NoContent == Content(FALSE, << >>)

\* a file, with the caller whose call in progress or last call produced it
\* ("earlier" for a call before that one)
File(by, content) == [by |-> by, content |-> content]

Absent == File("", NoContent)

\* the files of earlier calls, seen from a call that caller c begins
Aged(files, c) ==
    [k \in DOMAIN files |->
        IF files[k].by = c THEN File("earlier", files[k].content) ELSE files[k]]

\* one step of a call: what was done, on which paths, and how it ended
\* ("ok", "failed", or "missing" for a pull of a file that is not there)
Entry(do, arg, outcome) == [do |-> do, arg |-> arg, outcome |-> outcome]

\* caller c enters operation op
Begin(c, op) ==
    [d \in Callers |->
        IF d = c
        THEN [op |-> op, running |-> TRUE, log |-> << >>, result |-> NoResult,
              source |-> "", overlapped |->
                  \E e \in Callers \ {c} : task[e].running /\ task[e].op = op]
        ELSE IF task[d].running /\ task[d].op = op
        THEN [task[d] EXCEPT !.overlapped = TRUE]
        ELSE task[d]]

\* self.device is None: the first statement raises AttributeError
NoHandle(t) == [t EXCEPT !.running = FALSE, !.result = Raises("AttributeError")]

\* a statement returned: the call goes on to the next statement
Stepped(t, entry) == [t EXCEPT !.log = Append(@, entry)]

\* a failed statement after which the call goes on
Failed_GoesOn(t, entry, exc) == [t EXCEPT !.log = Append(@, entry)]

\* a statement raised: the exception leaves the call
Failed(t, entry, exc) ==
    [t EXCEPT !.log = Append(@, entry), !.running = FALSE, !.result = Raises(exc)]

\* the last statement returned: the call returns value, made from the file
\* that source produced
Finished(t, entry, value, source) ==
    [t EXCEPT !.log = Append(@, entry), !.running = FALSE,
              !.result = Returned(value), !.source = source]

\* device.pull(src, dst) that leaves an existing dst as it is
Pulled_KeepsExisting(files, key, file) ==
    IF files[key] = Absent THEN [files EXCEPT ![key] = file] ELSE files

\* device.pull(src, dst): dst now holds what src holds
Pulled(files, key, file) == [files EXCEPT ![key] = file]

\* get_uilayout, line 144: self.device.shell("uiautomator dump")
GetUiLayoutDump(c, contents) ==
    /\ Callable
    /\ ~task[c].running
    /\ IF ~device.some
       THEN /\ task' = [Begin(c, "get_uilayout") EXCEPT ![c] = NoHandle(@)]
            /\ remote' = Aged(remote, c)
            /\ local' = Aged(local, c)
       ELSE \/ \E content \in contents :
                /\ task' = [Begin(c, "get_uilayout") EXCEPT
                               ![c] = Stepped(@, Entry("shell",
                                          << "uiautomator dump" >>, "ok"))]
                /\ remote' = [Aged(remote, c) EXCEPT !.xml = File(c, content)]
                /\ local' = Aged(local, c)
            \/ /\ task' = [Begin(c, "get_uilayout") EXCEPT
                               ![c] = Failed(@, Entry("shell",
                                          << "uiautomator dump" >>, "failed"),
                                          "RuntimeError")]
                /\ remote' = Aged(remote, c)
                /\ local' = Aged(local, c)
    /\ UNCHANGED process_vars

\* get_uilayout, line 145: self.device.pull("/sdcard/window_dump.xml", "window_dump.xml")
GetUiLayoutPull(c) ==
    /\ task[c].running /\ task[c].op = "get_uilayout" /\ Len(task[c].log) = 1
    /\ \E ok \in BOOLEAN :
        LET arg == << "/sdcard/window_dump.xml", "window_dump.xml" >>
        IN IF remote.xml = Absent
           THEN /\ task' = [task EXCEPT ![c] = Failed(@, Entry("pull", arg, "missing"),
                                                      "RuntimeError")]
                /\ UNCHANGED local
           ELSE IF ok
           THEN /\ task' = [task EXCEPT ![c] = Stepped(@, Entry("pull", arg, "ok"))]
                /\ local' = Pulled(local, "xml", remote.xml)
           ELSE /\ task' = [task EXCEPT ![c] = Failed(@, Entry("pull", arg, "failed"),
                                                      "RuntimeError")]
                /\ UNCHANGED local
    /\ UNCHANGED remote
    /\ UNCHANGED process_vars

\* get_uilayout, line 146: self.device.shell("rm /sdcard/window_dump.xml")
GetUiLayoutRemove(c) ==
    /\ task[c].running /\ task[c].op = "get_uilayout" /\ Len(task[c].log) = 2
    /\ \E ok \in BOOLEAN :
        LET arg == << "rm /sdcard/window_dump.xml" >>
        IN IF ok
           THEN /\ task' = [task EXCEPT ![c] = Stepped(@, Entry("shell", arg, "ok"))]
                /\ remote' = [remote EXCEPT !.xml = Absent]
           ELSE /\ task' = [task EXCEPT ![c] = Failed(@, Entry("shell", arg, "failed"),
                                                      "RuntimeError")]
                /\ UNCHANGED remote
    /\ UNCHANGED local
    /\ UNCHANGED process_vars

\* get_uilayout, lines 161-187: ET.parse("window_dump.xml") and the blocks
GetUiLayoutParse(c) ==
    /\ task[c].running /\ task[c].op = "get_uilayout" /\ Len(task[c].log) = 3
    /\ LET arg == << "window_dump.xml" >>
       IN IF local.xml.content.wellformed
          THEN task' = [task EXCEPT ![c] =
                           Finished(@, Entry("parse", arg, "ok"),
                                    UiLayoutResult(local.xml.content.nodes),
                                    local.xml.by)]
          ELSE task' = [task EXCEPT ![c] =
                           Failed(@, Entry("parse", arg, "failed"), "ParseError")]
    /\ UNCHANGED << remote, local >>
    /\ UNCHANGED process_vars

\* take_screenshot, line 126: self.device.shell("screencap -p /sdcard/screenshot.png")
TakeScreenshotCapture(c) ==
    /\ Callable
    /\ ~task[c].running
    /\ IF ~device.some
       THEN /\ task' = [Begin(c, "get_screenshot") EXCEPT ![c] = NoHandle(@)]
            /\ remote' = Aged(remote, c)
            /\ local' = Aged(local, c)
       ELSE \E ok \in BOOLEAN :
            LET arg == << "screencap -p /sdcard/screenshot.png" >>
            IN IF ok
               THEN /\ task' = [Begin(c, "get_screenshot") EXCEPT
                                   ![c] = Stepped(@, Entry("shell", arg, "ok"))]
                    /\ remote' = [Aged(remote, c) EXCEPT !.png = File(c, NoContent)]
                    /\ local' = Aged(local, c)
               ELSE /\ task' = [Begin(c, "get_screenshot") EXCEPT
                                   ![c] = Failed(@, Entry("shell", arg, "failed"),
                                                 "RuntimeError")]
                    /\ remote' = Aged(remote, c)
                    /\ local' = Aged(local, c)
    /\ UNCHANGED process_vars

\* take_screenshot, line 127: self.device.pull("/sdcard/screenshot.png", "screenshot.png")
TakeScreenshotPull(c) ==
    /\ task[c].running /\ task[c].op = "get_screenshot" /\ Len(task[c].log) = 1
    /\ \E ok \in BOOLEAN :
        LET arg == << "/sdcard/screenshot.png", "screenshot.png" >>
        IN IF remote.png = Absent
           THEN /\ task' = [task EXCEPT ![c] = Failed(@, Entry("pull", arg, "missing"),
                                                      "RuntimeError")]
                /\ UNCHANGED local
           ELSE IF ok
           THEN /\ task' = [task EXCEPT ![c] = Stepped(@, Entry("pull", arg, "ok"))]
                /\ local' = Pulled(local, "png", remote.png)
           ELSE /\ task' = [task EXCEPT ![c] = Failed(@, Entry("pull", arg, "failed"),
                                                      "RuntimeError")]
                /\ UNCHANGED local
    /\ UNCHANGED remote
    /\ UNCHANGED process_vars

\* take_screenshot, line 128: self.device.shell("rm /sdcard/screenshot.png")
TakeScreenshotRemove(c) ==
    /\ task[c].running /\ task[c].op = "get_screenshot" /\ Len(task[c].log) = 2
    /\ \E ok \in BOOLEAN :
        LET arg == << "rm /sdcard/screenshot.png" >>
        IN IF ok
           THEN /\ task' = [task EXCEPT ![c] = Stepped(@, Entry("shell", arg, "ok"))]
                /\ remote' = [remote EXCEPT !.png = Absent]
           ELSE /\ task' = [task EXCEPT ![c] = Failed(@, Entry("shell", arg, "failed"),
                                                      "RuntimeError")]
                /\ UNCHANGED remote
    /\ UNCHANGED local
    /\ UNCHANGED process_vars

\* take_screenshot, lines 131-141: open "screenshot.png", resize, save
\* "compressed_screenshot.png"; server.py, line 110: return the Image of
\* that path
TakeScreenshotCompress(c) ==
    /\ task[c].running /\ task[c].op = "get_screenshot" /\ Len(task[c].log) = 3
    /\ \E ok \in BOOLEAN :
        LET arg == << "screenshot.png", "compressed_screenshot.png" >>
        IN IF ok
           THEN /\ task' = [task EXCEPT ![c] =
                               Finished(@, Entry("compress", arg, "ok"),
                                        << "compressed_screenshot.png" >>,
                                        local.png.by)]
                /\ local' = [local EXCEPT !.compressed = File(local.png.by, NoContent)]
           ELSE /\ task' = [task EXCEPT ![c] =
                               Failed(@, Entry("compress", arg, "failed"), "OSError")]
                /\ UNCHANGED local
    /\ UNCHANGED remote
    /\ UNCHANGED process_vars

-----------------------------------------------------------------------------
(* The tools and the transports of server.py, lines 66-178 *)

\* the functions under @mcp.tool()
ToolNames ==
    {"get_packages", "execute_adb_shell_command", "get_uilayout",
     "get_screenshot", "get_package_action_intents"}

\* lines 66-123: the module-level statements that register the tools, run
\* after line 52 has returned
RegisterTools ==
    /\ pc = "ready"
    /\ config_file # CfgUnread
    /\ registered' = ToolNames
    /\ pc' = "registered"
    /\ UNCHANGED << adb_run, connected, changes, config_file,
                    server_device_name, device_name, exit_on_error,
                    init_calls, enumerations, available_devices,
                    selected_device_name, device, stdout, stderr, exit_status,
                    error, last_call, shell_log, result >>
    /\ UNCHANGED << task, remote, local, transport >>

\* lines 126-178: the transport named by --transport is started; the
\* HTTP-based ones need uvicorn, and the process exits with status 1 when
\* it cannot be imported
StartTransport ==
    LET \* "Starting Android MCP server with stdio transport"
        StartingStdio ==
            << "S","t","a","r","t","i","n","g"," ","A","n","d","r","o","i","d"," ",
               "M","C","P"," ","s","e","r","v","e","r"," ","w","i","t","h"," ",
               "s","t","d","i","o"," ","t","r","a","n","s","p","o","r","t" >>
        \* "Starting Android MCP server on http://", before host and port
        StartingHttp ==
            << "S","t","a","r","t","i","n","g"," ","A","n","d","r","o","i","d"," ",
               "M","C","P"," ","s","e","r","v","e","r"," ","o","n"," ",
               "h","t","t","p",":","/","/" >>
        \* "Error: uvicorn and starlette are required for HTTP-based transports."
        UvicornRequired ==
            << "E","r","r","o","r",":"," ","u","v","i","c","o","r","n"," ",
               "a","n","d"," ","s","t","a","r","l","e","t","t","e"," ","a","r","e"," ",
               "r","e","q","u","i","r","e","d"," ","f","o","r"," ",
               "H","T","T","P","-","b","a","s","e","d"," ",
               "t","r","a","n","s","p","o","r","t","s","." >>
        \* "Please install them with: pip install uvicorn starlette"
        PleaseInstall ==
            << "P","l","e","a","s","e"," ","i","n","s","t","a","l","l"," ",
               "t","h","e","m"," ","w","i","t","h",":"," ","p","i","p"," ",
               "i","n","s","t","a","l","l"," ","u","v","i","c","o","r","n"," ",
               "s","t","a","r","l","e","t","t","e" >>
    IN
    /\ pc = "registered"
    /\ \E choice \in {"stdio", "streamable-http", "sse", "all"}, importable \in BOOLEAN :
        IF choice = "stdio"
        THEN /\ stdout' = Append(stdout, StartingStdio)
             /\ transport' = "stdio"
             /\ pc' = "serving"
             /\ UNCHANGED exit_status
        ELSE IF ~importable
        THEN /\ stdout' = stdout \o << UvicornRequired, PleaseInstall >>
             /\ exit_status' = 1
             /\ pc' = "exited"
             /\ UNCHANGED transport
        ELSE /\ stdout' = Append(stdout, StartingHttp)
             /\ transport' = choice
             /\ pc' = "serving"
             /\ UNCHANGED exit_status
    /\ UNCHANGED << adb_run, connected, changes, config_file,
                    server_device_name, device_name, exit_on_error,
                    init_calls, enumerations, available_devices,
                    selected_device_name, device, stderr, error, last_call,
                    shell_log, result >>
    /\ UNCHANGED << task, remote, local, registered >>

-----------------------------------------------------------------------------
(* Dumps of the screen that "uiautomator dump" writes *)

\* "[0,0][2,4]"
SomeBounds == << "[", "0", ",", "0", "]", "[", "2", ",", "4", "]" >>

\* a clickable node with a text, one with neither text nor description,
\* and a node with a text that is not clickable
LayoutNodes ==
    {Node("true", << "O", "K" >>, << >>, SomeBounds),
     Node("true", << >>, << >>, SomeBounds),
     Node("false", << "N", "o" >>, << >>, SomeBounds)}

\* dumps of up to MaxNodes nodes, a dump of a node with a description only
\* after one with a text, a dump whose one node has text and description
\* and no bounds, and a file that is not well-formed XML
LayoutContents ==
    {Content(TRUE, nodes) : nodes \in UNION {[1..k -> LayoutNodes] : k \in 0..MaxNodes}}
        \cup {Content(TRUE, << Node("true", << "O", "K" >>, << >>, SomeBounds),
                               Node("true", << >>, << "G", "o" >>, SomeBounds) >>),
              Content(TRUE, << Node("true", << "O", "K" >>, << "G", "o" >>, << >>) >>),
              NoContent}

\* bounds attributes: any text of the pieces, "[0,0][100,200]", a pair that
\* is not closed, a negative number, a character between two pairs, a
\* fraction, a blank, no comma
BoundsStrings ==
    ConcatsOf({<< "[", "0", ",", "0", "]" >>,
               << "[", "1", "0", ",", "2", "1", "]" >>}, MaxPieces)
        \cup {<< "[","0",",","0","]","[","1","0","0",",","2","0","0","]" >>,
              << "[","7","[","0",",","0","]","[","3",",","4","]" >>,
              << "[","-","1",",","2","]","[","3",",","4","]" >>,
              << "[","1",",","2","]","x","[","4",",","5","]" >>,
              << "[","1",".","5",",","2","]","[","3",",","4","]" >>,
              << "["," ","1",",","2","]","[","3",",","4","]" >>,
              << "[","1","2","]","[","3",",","4","]" >>}

\* dumps of one clickable node with a text and each of the bounds
BoundsContents ==
    {Content(TRUE, << Node("true", << "O", "K" >>, << >>, b) >>) : b \in BoundsStrings}

\* a dump of one clickable node with a text, and a file that does not parse
FewContents ==
    {Content(TRUE, << Node("true", << "O", "K" >>, << >>, SomeBounds) >>), NoContent}

-----------------------------------------------------------------------------
(* The specification *)

Init ==
    /\ pc = "start"
    /\ adb_run \in AdbRuns
    /\ connected \in DeviceLists
    /\ changes = 0
    /\ config_file = CfgUnread
    /\ server_device_name = None
    /\ device_name = None
    /\ exit_on_error = TRUE
    /\ init_calls = 0
    /\ enumerations = 0
    /\ available_devices = << >>
    /\ selected_device_name = None
    /\ device = None
    /\ stdout = << >>
    /\ stderr = << >>
    /\ exit_status = 0
    /\ error = NoError
    /\ last_call = NoCall
    /\ shell_log = << >>
    /\ result = NoResult
    /\ task = [c \in Callers |->
                 [op |-> "", running |-> FALSE, log |-> << >>, result |-> NoResult,
                  source |-> "", overlapped |-> FALSE]]
    /\ remote = [xml |-> Absent, png |-> Absent]
    /\ local = [xml |-> Absent, png |-> Absent, compressed |-> Absent]
    /\ registered = {}
    /\ transport = "none"

\* the server process: server.py is run, or a caller constructs the manager
Next ==
    \/ LoadConfig
    \/ ServerConstruct
    \/ LibraryConstruct
    \/ DevicesChange
    \/ Bind

Spec == Init /\ [][Next]_vars

\* a session a caller constructs and then uses
NextSession ==
    \/ LibraryConstruct
    \/ DevicesChange
    \/ Bind
    \/ ExecuteAdbShellCommand(Commands, ShellOutputs)

SpecSession == Init /\ [][NextSession]_vars

\* a run with the bridge installed and one device connected
InitConnected == Init /\ adb_run = "ok" /\ connected = << << "a" >> >>

\* the library: one session and its get_packages calls
NextPackages ==
    \/ LibraryConstruct
    \/ Bind
    \/ GetPackages(PackageOutputs)

SpecPackages == InitConnected /\ [][NextPackages]_vars

\* the library: one session and its get_package_action_intents calls
NextIntents ==
    \/ LibraryConstruct
    \/ Bind
    \/ GetPackageActionIntents(PackageNames, DumpsysOutputs)

SpecIntents == InitConnected /\ [][NextIntents]_vars

\* the library: one session and one caller's get_uilayout calls
NextLayout ==
    \/ LibraryConstruct
    \/ Bind
    \/ GetUiLayoutDump("first", LayoutContents)
    \/ GetUiLayoutPull("first")
    \/ GetUiLayoutRemove("first")
    \/ GetUiLayoutParse("first")

SpecLayout == InitConnected /\ [][NextLayout]_vars

\* the same, over dumps that differ in the bounds attribute
NextCenter ==
    \/ LibraryConstruct
    \/ Bind
    \/ GetUiLayoutDump("first", BoundsContents)
    \/ GetUiLayoutPull("first")
    \/ GetUiLayoutRemove("first")
    \/ GetUiLayoutParse("first")

SpecCenter == InitConnected /\ [][NextCenter]_vars

\* the library: one session, devices that come and go before the binding,
\* and one caller's get_uilayout and get_screenshot calls
NextSteps ==
    \/ LibraryConstruct
    \/ DevicesChange
    \/ Bind
    \/ GetUiLayoutDump("first", FewContents)
    \/ GetUiLayoutPull("first")
    \/ GetUiLayoutRemove("first")
    \/ GetUiLayoutParse("first")
    \/ TakeScreenshotCapture("first")
    \/ TakeScreenshotPull("first")
    \/ TakeScreenshotRemove("first")
    \/ TakeScreenshotCompress("first")

SpecSteps == InitConnected /\ [][NextSteps]_vars

\* the library: one session used by two callers at once, with no order
\* imposed on their get_uilayout and get_screenshot calls
NextOverlap ==
    \/ LibraryConstruct
    \/ Bind
    \/ \E c \in Callers : GetUiLayoutDump(c, FewContents)
    \/ \E c \in Callers : GetUiLayoutPull(c)
    \/ \E c \in Callers : GetUiLayoutRemove(c)
    \/ \E c \in Callers : GetUiLayoutParse(c)
    \/ \E c \in Callers : TakeScreenshotCapture(c)
    \/ \E c \in Callers : TakeScreenshotPull(c)
    \/ \E c \in Callers : TakeScreenshotRemove(c)
    \/ \E c \in Callers : TakeScreenshotCompress(c)

SpecOverlap == InitConnected /\ [][NextOverlap]_vars

\* no caller is inside a get_uilayout or get_screenshot call
Idle == \A c \in Callers : ~task[c].running

\* the library: one session, devices that come and go before the binding,
\* and one caller that makes the five tool calls one after the other
NextTools ==
    \/ LibraryConstruct
    \/ DevicesChange
    \/ Bind
    \/ Idle /\ GetPackages({PackageA \o << "\n" >> \o PackageBB \o << "\n" >>})
    \/ Idle /\ ExecuteAdbShellCommand({PrefixAdbShell \o << "l", "s" >>}, {<< "o", "k" >>})
    \/ Idle /\ GetPackageActionIntents({<< "c", "o", "m", ".", "a" >>},
                  {ActivityResolverTable \o NonDataActions \o LineAndroid})
    \/ Idle /\ GetUiLayoutDump("first", FewContents)
    \/ GetUiLayoutPull("first")
    \/ GetUiLayoutRemove("first")
    \/ GetUiLayoutParse("first")
    \/ Idle /\ TakeScreenshotCapture("first")
    \/ TakeScreenshotPull("first")
    \/ TakeScreenshotRemove("first")
    \/ TakeScreenshotCompress("first")

SpecTools == InitConnected /\ [][NextTools]_vars


\* server.py run as a program, from its first statement to the tool calls
\* that the transport dispatches, one at a time
NextServer ==
    \/ LoadConfig
    \/ ServerConstruct
    \/ DevicesChange
    \/ Bind
    \/ RegisterTools
    \/ StartTransport
    \/ Idle /\ GetPackages({PackageA \o << "\n" >>})
    \/ Idle /\ ExecuteAdbShellCommand({PrefixAdbShell \o << "l", "s" >>}, {<< "o", "k" >>})
    \/ Idle /\ GetPackageActionIntents({ComDot \o << "a" >>},
                  {ActivityResolverTable \o NonDataActions \o LineAndroid})

SpecServer == Init /\ [][NextServer]_vars

-----------------------------------------------------------------------------
(* Properties of device selection *)

\* __init__ ran its checks and returned, exited or raised
InitRan == init_calls = 1

\* __init__ got a device list from the bridge
Enumerated == InitRan /\ enumerations = 1

\* no device_name was requested: None or ""
NoRequest == device_name \in {None, Some(<< >>)}

InitSucceeded == InitRan /\ pc \in {"selected", "ready"} /\ error = NoError

InitFailed == InitRan /\ pc \in {"exited", "raised"}

\* the message of the failure: printed to stderr before the exit, or
\* carried by the exception
FailureMsg ==
    IF pc = "exited" /\ stderr # << >> THEN stderr[Len(stderr)] ELSE error.msg

NoDeviceBound == selected_device_name = None /\ device = None

\* the session is bound to serial id: id was selected, and after line 63
\* the handle, when the bridge still reports id, is the handle of id
BoundTo(id) ==
    /\ selected_device_name = Some(id)
    /\ pc = "ready" => /\ device \in {Some(id), None}
                       /\ In(id, connected) => device = Some(id)

\* C1: with exactly one device in the list and no requested name (None or
\* ""), construction succeeds, the session is bound to that device and the
\* auto-selection notice naming it is printed.
C1_SingleDeviceAutoSelected ==
    (Enumerated /\ NoRequest /\ Len(available_devices) = 1) =>
        /\ InitSucceeded
        /\ exit_status = 0
        /\ BoundTo(available_devices[1])
        /\ stdout # << >>
        /\ stdout[Len(stdout)] = AutoSelectedPrefix \o available_devices[1]

C1_Witness ==
    /\ pc = "ready"
    /\ device_name = Some(<< >>)
    /\ available_devices = << << "a", "\\", "b" >> >>
    /\ device = Some(<< "a", "\\", "b" >>)
    /\ stdout = << AutoSelectedPrefix \o << "a", "\\", "b" >> >>

\* C2 (as stated): with two or more devices in the list and no requested
\* name, selection fails with the multiple-devices error, no device is
\* bound, and the message contains every identifier of the list.
C2_AmbiguousMessageNamesEveryDevice ==
    (Enumerated /\ NoRequest /\ Len(available_devices) >= 2) =>
        /\ InitFailed
        /\ NoDeviceBound
        /\ StartsWith(FailureMsg, MultiplePrefix)
        /\ \A i \in 1..Len(available_devices) :
               Contains(FailureMsg, available_devices[i])

\* C3 (as stated): with a non-empty list and a requested name that is not in
\* it, selection fails with the not-found error, no device is bound, and the
\* message contains the requested name and every available identifier.
C3_NotFoundMessageNamesEveryDevice ==
    (Enumerated /\ Truthy(device_name) /\ available_devices # << >>
        /\ ~In(device_name.s, available_devices)) =>
        /\ InitFailed
        /\ NoDeviceBound
        /\ StartsWith(FailureMsg, DevicePrefix \o device_name.s \o NotFoundAvailable)
        /\ Contains(FailureMsg, device_name.s)
        /\ \A i \in 1..Len(available_devices) :
               Contains(FailureMsg, available_devices[i])

\* C4: a requested name that is in the device list is the one selected and
\* bound, whatever the length of the list and the position of the name in it.
C4_RequestedDeviceSelected ==
    (Enumerated /\ Truthy(device_name) /\ In(device_name.s, available_devices)) =>
        /\ InitSucceeded
        /\ exit_status = 0
        /\ BoundTo(device_name.s)

C4_Witness ==
    /\ pc = "ready"
    /\ Len(available_devices) = 2
    /\ available_devices[1] # device_name.s
    /\ available_devices[2] = device_name.s
    /\ device = device_name

\* the bridge is missing: running it fails with FileNotFoundError or with a
\* nonzero exit status
BridgeMissing == adb_run \in {"missing", "nonzero"}

\* C5: the checks run in a fixed order and the first failing one decides the
\* error: a missing bridge gives the adb-not-installed error and no device
\* enumeration, whatever the devices and the requested name; an empty list
\* gives the no-devices error whatever the requested name; the not-found and
\* multiple-devices errors occur only with the bridge installed and a
\* non-empty list.
C5_CheckPrecedence ==
    InitRan =>
        /\ BridgeMissing =>
               InitFailed /\ FailureMsg = AdbNotInstalledMsg /\ enumerations = 0
        /\ (Enumerated /\ available_devices = << >>) =>
               InitFailed /\ FailureMsg = NoDevicesMsg
        /\ (InitFailed /\ (StartsWith(FailureMsg, DevicePrefix)
                              \/ StartsWith(FailureMsg, MultiplePrefix))) =>
               adb_run = "ok" /\ Enumerated /\ available_devices # << >>

C5_Witness ==
    /\ InitFailed
    /\ adb_run = "nonzero"
    /\ Truthy(device_name)
    /\ In(device_name.s, connected)
    /\ enumerations = 0
    /\ FailureMsg = AdbNotInstalledMsg

\* the failure the inputs of __init__ call for, whatever exit_on_error is
Cause ==
    IF BridgeMissing THEN "adb"
    ELSE IF ~Enumerated THEN "other"
    ELSE IF available_devices = << >> THEN "nodevice"
    ELSE IF Truthy(device_name) /\ ~In(device_name.s, available_devices)
    THEN "notfound"
    ELSE IF ~Truthy(device_name) /\ Len(available_devices) > 1 THEN "ambiguous"
    ELSE "none"

\* the message of each failure
CauseMsg ==
    CASE Cause = "adb" -> AdbNotInstalledMsg
      [] Cause = "nodevice" -> NoDevicesMsg
      [] Cause = "notfound" ->
             DevicePrefix \o device_name.s \o NotFoundAvailable
                 \o ReprList(available_devices)
      [] Cause = "ambiguous" ->
             MultiplePrefix \o ReprList(available_devices) \o MultipleSuffix
      [] OTHER -> << >>

\* C6: exit_on_error decides only how a failure is reported.  With the flag
\* true each of the four failures prints its message to stderr and exits
\* with status 1, binding no device; with the flag false each raises an
\* error carrying the message and nothing exits.  Which failure occurs, and
\* whether selection succeeds, does not depend on the flag.
C6_ExitOnErrorGatesReporting ==
    (InitRan /\ Cause # "other") =>
        /\ Cause = "none" <=> InitSucceeded
        /\ (Cause # "none" /\ exit_on_error) =>
               /\ pc = "exited"
               /\ exit_status = 1
               /\ stderr = << CauseMsg >>
               /\ error = NoError
               /\ NoDeviceBound
        /\ (Cause # "none" /\ ~exit_on_error) =>
               /\ pc = "raised"
               /\ error.raised
               /\ error.msg = CauseMsg
               /\ exit_status = 0
               /\ stderr = << >>
               /\ NoDeviceBound

C6_Witness ==
    /\ InitRan
    /\ exit_on_error
    /\ Cause = "notfound"
    /\ pc = "exited"
    /\ exit_status = 1
    /\ stderr = << CauseMsg >>

\* the error kinds of the taxonomy
KindOf(cause) ==
    CASE cause = "adb" -> "EnvironmentError"
      [] cause = "nodevice" -> "NoDeviceError"
      [] cause = "notfound" -> "DeviceNotFoundError"
      [] cause = "ambiguous" -> "AmbiguousDeviceError"
      [] OTHER -> ""

\* C7 (as stated): each of the four failures is raised as an error of its own
\* kind, so that the kind alone tells the cause.
C7_FourErrorKinds ==
    (InitRan /\ pc = "raised" /\ Cause \notin {"other", "none"}) =>
        error.type = KindOf(Cause)

\* the cause a caller reads off the first words of a message
CauseOfMessage(msg) ==
    IF StartsWith(msg, << "a", "d", "b", " " >>) THEN "adb"
    ELSE IF StartsWith(msg, << "N", "o", " " >>) THEN "nodevice"
    ELSE IF StartsWith(msg, DevicePrefix) THEN "notfound"
    ELSE IF StartsWith(msg, MultiplePrefix) THEN "ambiguous"
    ELSE "unknown"

\* C7 (amended): the four failures are raised as one kind, RuntimeError, and
\* differ in their message, whose first words tell the cause.
C7_OneKindFourMessages ==
    (InitRan /\ pc = "raised" /\ Cause \notin {"other", "none"}) =>
        /\ error.type = "RuntimeError"
        /\ CauseOfMessage(error.msg) = Cause

C7_Witness ==
    /\ InitRan
    /\ pc = "raised"
    /\ Cause = "notfound"
    /\ device_name = Some(<< "z" >>)
    /\ error.type = "RuntimeError"

-----------------------------------------------------------------------------
(* Properties of configuration loading *)

\* server.py has looked for config.yaml
ConfigRead == config_file.file # "unread"

\* the file parses to a mapping whose "device" entry is a mapping
HasDeviceSection(cfg) ==
    /\ cfg.file = "present"
    /\ cfg.parses
    /\ cfg.top.t = "map"
    /\ cfg.hasDevice
    /\ cfg.device.t = "map"

\* ... and that mapping has a "name" entry
HasNameEntry(cfg) == HasDeviceSection(cfg) /\ cfg.hasName

AllWhitespace(s) == \A i \in 1..Len(s) : s[i] \in Whitespace

\* the inputs that ask for auto-selection: no file, an empty file, no device
\* section, a device section without name, name null, name "" or blank
AutoSelectInput(cfg) ==
    \/ cfg.file = "missing"
    \/ cfg.file = "present" /\ cfg.parses /\ cfg.top = NullV
    \/ cfg.file = "present" /\ cfg.parses /\ cfg.top.t = "map" /\ ~cfg.hasDevice
    \/ HasDeviceSection(cfg) /\ ~cfg.hasName
    \/ HasNameEntry(cfg) /\ cfg.name = NullV
    \/ HasNameEntry(cfg) /\ cfg.name.t = "str" /\ AllWhitespace(cfg.name.s)

\* a name with at least one character that is not whitespace
NamedInput(cfg) ==
    HasNameEntry(cfg) /\ cfg.name.t = "str" /\ ~AllWhitespace(cfg.name.s)

\* t is s without its leading and trailing whitespace
Trimmed(s, t) ==
    /\ t # << >>
    /\ t[1] \notin Whitespace
    /\ t[Len(t)] \notin Whitespace
    /\ \E i \in 0..(Len(s) - Len(t)) :
        /\ SubSeq(s, i + 1, i + Len(t)) = t
        /\ \A j \in 1..i : s[j] \in Whitespace
        /\ \A j \in (i + Len(t) + 1)..Len(s) : s[j] \in Whitespace

\* C8: every input that asks for auto-selection loads as "no name" and
\* startup goes on; any other str name loads as that name without its
\* leading and trailing whitespace; the name handed to __init__ is the
\* loaded one and is never empty nor padded with whitespace.
C8_ConfigNameNormalised ==
    ConfigRead =>
        /\ AutoSelectInput(config_file) =>
               /\ server_device_name = None
               /\ init_calls = 0 => pc = "config_loaded"
        /\ NamedInput(config_file) =>
               /\ server_device_name.some
               /\ Trimmed(config_file.name.s, server_device_name.s)
               /\ init_calls = 0 => pc = "config_loaded"
        /\ InitRan =>
               /\ device_name = server_device_name
               /\ device_name.some =>
                      Trimmed(device_name.s, device_name.s)

C8_Witness ==
    /\ InitRan
    /\ config_file.name = StrV(<< "\t", "a" >>)
    /\ server_device_name = Some(<< "a" >>)
    /\ device_name = Some(<< "a" >>)

\* the process ended in the except clause of the config loading: two lines
\* on stderr and exit status 1, with __init__ never entered
ExitedAtConfig ==
    /\ pc = "exited"
    /\ exit_status = 1
    /\ Len(stderr) = 2
    /\ StartsWith(stderr[1], ErrorLoadingConfig \o CONFIG_FILE)
    /\ stderr[2] = PleaseCheckFormat \o CONFIG_FILE_EXAMPLE
    /\ init_calls = 0
    /\ enumerations = 0
    /\ NoDeviceBound

\* the file exists and is unreadable or unparsable, or has a device section
\* that is no mapping, or a name that is no str (null aside)
MalformedAsStated(cfg) ==
    \/ cfg.file = "unreadable"
    \/ cfg.file = "present" /\ ~cfg.parses
    \/ /\ cfg.file = "present" /\ cfg.parses /\ cfg.top.t = "map"
       /\ cfg.hasDevice /\ cfg.device.t \notin {"map", "null"}
    \/ HasNameEntry(cfg) /\ cfg.name.t \notin {"str", "null"}

\* C9: a config file that exists and is unparsable, or has a
\* non-mapping device section or a non-string name, makes the process print
\* to stderr and exit non-zero before any bridge check or enumeration.
C9_MalformedConfigExits ==
    (ConfigRead /\ MalformedAsStated(config_file)) => ExitedAtConfig

-----------------------------------------------------------------------------
(* Properties of the device operations *)

\* C10: execute_adb_shell_command hands exactly one command to the bound
\* device: the argument without its leading "adb shell " if it has one, else
\* without its leading "adb " if it has one, else the argument itself; the
\* remainder is not stripped again, and the value returned is the text the
\* bridge gave.
C10_PrefixStrippedOnce ==
    (last_call.op = "execute_adb_shell_command" /\ device.some) =>
        /\ Len(shell_log) = 1
        /\ shell_log[1].serial = device.s
        /\ StartsWith(last_call.arg, PrefixAdbShell) =>
               last_call.arg = PrefixAdbShell \o shell_log[1].cmd
        /\ (~StartsWith(last_call.arg, PrefixAdbShell)
               /\ StartsWith(last_call.arg, PrefixAdb)) =>
               last_call.arg = PrefixAdb \o shell_log[1].cmd
        /\ (~StartsWith(last_call.arg, PrefixAdbShell)
               /\ ~StartsWith(last_call.arg, PrefixAdb)) =>
               shell_log[1].cmd = last_call.arg
        /\ last_call.outcome.ok => result = Returned(last_call.outcome.text)
        /\ ~last_call.outcome.ok => result.done /\ ~result.ok

C10_Witness ==
    /\ last_call.op = "execute_adb_shell_command"
    /\ device.some
    /\ last_call.arg = PrefixAdbShell \o PrefixAdb
    /\ shell_log = << [serial |-> device.s, cmd |-> PrefixAdb] >>
    /\ result = Returned(<< " ", "x", "\n" >>)

-----------------------------------------------------------------------------
(* Properties of the bridge check and of the binding *)

\* C15: check_adb_installed returns true only when "adb version" ran and
\* exited with status 0, returns false for every failure to run it, and
\* lets no exception through to __init__.
C15_CheckNeverRaises ==
    InitRan =>
        /\ enumerations = 1 => adb_run = "ok"
        /\ adb_run # "ok" =>
               /\ InitFailed
               /\ FailureMsg = AdbNotInstalledMsg
               /\ error.type \in {"", "RuntimeError"}

\* C20: when __init__ has returned, self.device is a handle of the selected
\* serial, and that serial was in the list enumerated at line 27, also when
\* devices connect or disconnect between line 27 and line 63.
C20_ReturnedSessionHoldsHandle ==
    pc = "ready" =>
        /\ selected_device_name.some
        /\ In(selected_device_name.s, available_devices)
        /\ device = selected_device_name

-----------------------------------------------------------------------------
(* Properties of get_packages *)

\* positions of the newlines of a text
NewlinesIn(s) == {i \in 1..Len(s) : s[i] = "\n"}

\* number of pieces the newlines cut a text into
PieceCount(s) == Cardinality(NewlinesIn(s)) + 1

\* position of the k-th newline of s; 0 for k = 0, Len(s) + 1 past the last
NewlineAt(s, k) ==
    IF k = 0 THEN 0
    ELSE IF k > Cardinality(NewlinesIn(s)) THEN Len(s) + 1
    ELSE CHOOSE p \in NewlinesIn(s) :
            Cardinality({q \in NewlinesIn(s) : q < p}) = k - 1

\* the k-th piece of s, k from 1
PieceOf(s, k) == SubSeq(s, NewlineAt(s, k - 1) + 1, NewlineAt(s, k) - 1)

\* the lines of a text: its pieces, where the newline that ends the last
\* line begins no further line
WithoutFinalNewline(s) ==
    IF s # << >> /\ s[Len(s)] = "\n" THEN SubSeq(s, 1, Len(s) - 1) ELSE s

\* text r is the lines of text body, each without its first 8 characters,
\* joined by newlines
EachLineMinusEight(r, body) ==
    /\ PieceCount(r) = PieceCount(body)
    /\ \A k \in 1..PieceCount(body) :
        /\ Len(PieceOf(body, k)) <= 8 => PieceOf(r, k) = << >>
        /\ Len(PieceOf(body, k)) > 8 =>
              PieceOf(r, k) = SubSeq(PieceOf(body, k), 9, Len(PieceOf(body, k)))

\* text s without the whitespace at its two ends
WithoutOuterWhitespace(s) ==
    IF AllWhitespace(s) THEN << >>
    ELSE CHOOSE t \in {SubSeq(s, i, j) : i, j \in 1..Len(s)} : Trimmed(s, t)

PackagesReturned == last_call.op = "get_packages" /\ result.ok

\* C11 (as claimed): get_packages issues the one command "pm list packages"
\* and returns the lines of its output, same order and number, each without
\* its first 8 characters, joined by newlines.
C11_LinesMinusEightChars ==
    PackagesReturned =>
        /\ shell_log = << [serial |-> device.s, cmd |-> PmListPackages] >>
        /\ IF last_call.outcome.text = << >>
           THEN result.value = << >>
           ELSE EachLineMinusEight(result.value,
                                   WithoutFinalNewline(last_call.outcome.text))

\* C11 (amended): get_packages issues the one command "pm list packages",
\* takes the whitespace off the two ends of the whole output, and returns
\* the pieces between the newlines of what is left, same order and number,
\* each without its first 8 characters, joined by newlines.
C11_StrippedLinesMinusEightChars ==
    PackagesReturned =>
        /\ shell_log = << [serial |-> device.s, cmd |-> PmListPackages] >>
        /\ EachLineMinusEight(result.value,
                              WithoutOuterWhitespace(last_call.outcome.text))

\* the listing "package:a\npackage:bb\n" was returned as "a\nbb"
C11_Witness ==
    /\ PackagesReturned
    /\ last_call.outcome.text = PackageA \o << "\n" >> \o PackageBB \o << "\n" >>
    /\ result.value = << "a", "\n", "b", "b" >>

-----------------------------------------------------------------------------
(* Properties of get_package_action_intents *)

\* t occurs in s at position p (from 1)
OccursAt(s, t, p) ==
    /\ p >= 1
    /\ p + Len(t) - 1 <= Len(s)
    /\ SubSeq(s, p, p + Len(t) - 1) = t

\* first position at or after p where t occurs in s, 0 when there is none
FirstAtOrAfter(s, t, p) ==
    IF \E q \in p..Len(s) : OccursAt(s, t, q)
    THEN CHOOSE q \in p..Len(s) :
            /\ OccursAt(s, t, q)
            /\ \A r \in p..(q - 1) : ~OccursAt(s, t, r)
    ELSE 0

IsAction(line) == StartsWith(line, AndroidDot) \/ StartsWith(line, ComDot)

\* list r is, in their order, the trimmed lines k >= 2 of text that are actions
ActionsInOrder(r, text) ==
    LET K == {k \in 2..PieceCount(text) :
                IsAction(WithoutOuterWhitespace(PieceOf(text, k)))}
    IN /\ Len(r) = Cardinality(K)
       /\ \A k \in K :
            r[1 + Cardinality({j \in K : j < k})]
                = WithoutOuterWhitespace(PieceOf(text, k))

IntentsReturned == last_call.op = "get_package_action_intents" /\ result.ok

\* C12: get_package_action_intents returns the empty list when the output
\* has no "Activity Resolver Table:", and when no "\n  Non-Data Actions:"
\* follows it; otherwise it returns, in their order, exactly the trimmed
\* lines that begin with "android." or "com." and lie after the line of the
\* Non-Data Actions marker and before the next empty line (or the end of
\* the text).
C12_ActionsOfNonDataSection ==
    IntentsReturned =>
        LET out == last_call.outcome.text
            table == FirstAtOrAfter(out, ActivityResolverTable, 1)
            marker == IF table = 0 THEN 0
                      ELSE FirstAtOrAfter(out, NonDataActions, table)
            empty_line == IF marker = 0 THEN 0
                          ELSE FirstAtOrAfter(out, << "\n", "\n" >>, marker)
            last == IF empty_line = 0 THEN Len(out) ELSE empty_line - 1
        IN /\ shell_log = << [serial |-> device.s,
                              cmd |-> DumpsysPackage \o last_call.arg] >>
           /\ IF table = 0 \/ marker = 0
              THEN result.value = << >>
              ELSE ActionsInOrder(result.value, SubSeq(out, marker + 1, last))

\* an action before the empty line was returned, the one after it was not
C12_Witness ==
    /\ IntentsReturned
    /\ last_call.outcome.text
           = ActivityResolverTable \o NonDataActions \o LineAndroid
                \o << "\n" >> \o LineCom
    /\ result.value = << AndroidDot \o << "a" >> >>

-----------------------------------------------------------------------------
(* Properties of get_uilayout *)

\* caller c's get_uilayout call has returned
LayoutReturned(c) ==
    task[c].op = "get_uilayout" /\ ~task[c].running /\ task[c].result.ok

\* the nodes of a dump that are clickable and have a text or a description
Qualifying(nodes) ==
    {k \in 1..Len(nodes) :
        /\ nodes[k].clickable = "true"
        /\ nodes[k].text # << >> \/ nodes[k].content_desc # << >>}

\* the i-th smallest member of a set K of numbers
Nth(K, i) == CHOOSE k \in K : Cardinality({j \in K : j < k}) = i - 1

\* C13: get_uilayout returns "No clickable elements found with text or
\* description" exactly when the dump has no node that is clickable and has
\* a non-empty text or content-desc; otherwise it returns one block for
\* each such node and for no other, in document order, with an empty line
\* between two blocks. The result is never the empty string.
C13_BlocksOrSentinel ==
    \A c \in Callers :
        LayoutReturned(c) =>
            LET nodes == local.xml.content.nodes
                K == Qualifying(nodes)
                blocks == [i \in 1..Cardinality(K) |-> ElementInfo(nodes[Nth(K, i)])]
            IN /\ task[c].result.value = NoClickableElements <=> K = {}
               /\ K # {} => task[c].result.value = Join(<< "\n", "\n" >>, blocks)
               /\ task[c].result.value # << >>

\* two blocks were returned for a dump of two qualifying nodes
C13_Witness ==
    /\ LayoutReturned("first")
    /\ Cardinality(Qualifying(local.xml.content.nodes)) = 2
    /\ StartsWith(task["first"].result.value, ClickableElementLabel)
    /\ Contains(task["first"].result.value,
                << "\n", "\n" >> \o ClickableElementLabel \o DescriptionLabel)

\* a str of digits
AllDigits(d) == d # << >> /\ \A k \in 1..Len(d) : d[k] \in {"0", "1", "2", "3", "4", "5", "6", "7", "8", "9"}

\* "[x,y]" with two numbers x, y begins at position p of s and ends at r
PairFromTo(s, p, r) ==
    /\ s[p] = "["
    /\ s[r] = "]"
    /\ \E q \in (p + 1)..(r - 1) :
        /\ s[q] = ","
        /\ AllDigits(SubSeq(s, p + 1, q - 1))
        /\ AllDigits(SubSeq(s, q + 1, r - 1))

\* positions where a pair begins in s
PairStarts(s) == {p \in 1..Len(s) : \E r \in p..Len(s) : PairFromTo(s, p, r)}

\* the number a str of digits, read from the left, stands for
RECURSIVE ValueFrom(_, _, _)
ValueFrom(d, k, acc) ==
    IF k > Len(d) THEN acc
    ELSE ValueFrom(d, k + 1,
            10 * acc + (CASE d[k] = "0" -> 0 [] d[k] = "1" -> 1 [] d[k] = "2" -> 2
                          [] d[k] = "3" -> 3 [] d[k] = "4" -> 4 [] d[k] = "5" -> 5
                          [] d[k] = "6" -> 6 [] d[k] = "7" -> 7 [] d[k] = "8" -> 8
                          [] d[k] = "9" -> 9))

\* the two numbers of the pair that begins at position p of s
PairValue(s, p) ==
    LET r == CHOOSE r \in p..Len(s) : PairFromTo(s, p, r)
        q == CHOOSE q \in (p + 1)..(r - 1) : s[q] = ","
    IN << ValueFrom(SubSeq(s, p + 1, q - 1), 1, 0),
          ValueFrom(SubSeq(s, q + 1, r - 1), 1, 0) >>

\* d is the decimal numeral of n
Numeral(d, n) ==
    /\ AllDigits(d)
    /\ Len(d) > 1 => d[1] # "0"
    /\ ValueFrom(d, 1, 0) = n

\* text is the line "\n  Center: (x, y)"
IsCenterLine(text, x, y) ==
    /\ StartsWith(text, CenterLabel)
    /\ text[Len(text)] = ")"
    /\ \E i \in (Len(CenterLabel) + 1)..(Len(text) - 2) :
        /\ text[i] = ","
        /\ text[i + 1] = " "
        /\ Numeral(SubSeq(text, Len(CenterLabel) + 1, i - 1), x)
        /\ Numeral(SubSeq(text, i + 2, Len(text) - 1), y)

\* C14: the block of an element ends with a Center line exactly when its
\* bounds string holds exactly two "[x,y]" pairs of non-negative integers;
\* the centre is ((x1 + x2) div 2, (y1 + y2) div 2), is printed also when
\* it is (0, 0), and the bounds string is printed as it is in every block.
C14_CenterIffTwoPairs ==
    \A c \in Callers :
        (/\ LayoutReturned(c)
         /\ Len(local.xml.content.nodes) = 1
         /\ Qualifying(local.xml.content.nodes) = {1}) =>
            LET node == local.xml.content.nodes[1]
                block == task[c].result.value
                head == ClickableElementLabel
                          \o (IF node.text = << >> THEN << >>
                              ELSE TextLabel \o node.text)
                          \o (IF node.content_desc = << >> THEN << >>
                              ELSE DescriptionLabel \o node.content_desc)
                          \o BoundsLabel \o node.bounds
                rest == SubSeq(block, Len(head) + 1, Len(block))
                P == PairStarts(node.bounds)
            IN /\ StartsWith(block, head)
               /\ rest # << >> <=> Cardinality(P) = 2
               /\ Cardinality(P) = 2 =>
                    LET first == PairValue(node.bounds, Nth(P, 1))
                        second == PairValue(node.bounds, Nth(P, 2))
                    IN IsCenterLine(rest, (first[1] + second[1]) \div 2,
                                          (first[2] + second[2]) \div 2)

\* bounds "[0,0][100,200]" gave the line "Center: (50, 100)"
C14_Witness ==
    /\ LayoutReturned("first")
    /\ Len(local.xml.content.nodes) = 1
    /\ local.xml.content.nodes[1].bounds
           = << "[","0",",","0","]","[","1","0","0",",","2","0","0","]" >>
    /\ Contains(task["first"].result.value,
                CenterLabel \o << "5", "0", ",", " ", "1", "0", "0", ")" >>)

-----------------------------------------------------------------------------
(* Properties of the steps of get_uilayout and get_screenshot *)

\* the statements of an operation, in the order of the source
StepsOf(op) ==
    IF op = "get_uilayout"
    THEN << [do |-> "shell", arg |-> << "uiautomator dump" >>],
            [do |-> "pull", arg |-> << "/sdcard/window_dump.xml", "window_dump.xml" >>],
            [do |-> "shell", arg |-> << "rm /sdcard/window_dump.xml" >>],
            [do |-> "parse", arg |-> << "window_dump.xml" >>] >>
    ELSE << [do |-> "shell", arg |-> << "screencap -p /sdcard/screenshot.png" >>],
            [do |-> "pull", arg |-> << "/sdcard/screenshot.png", "screenshot.png" >>],
            [do |-> "shell", arg |-> << "rm /sdcard/screenshot.png" >>],
            [do |-> "compress", arg |-> << "screenshot.png", "compressed_screenshot.png" >>] >>

\* C18: a get_uilayout or get_screenshot call issues its steps in the one
\* order produce on the device, pull to the fixed local path, delete on the
\* device, process the local file, each at most once; a step that fails
\* (the bridge client or the parser raises) is the last step of its call,
\* so the on-device file is deleted only after its pull succeeded, and the
\* call returns a result only when all four steps succeeded.
C18_StepsInOrderUntilFailure ==
    \A c \in Callers :
        LET t == task[c]
        IN t.op # "" =>
            /\ Len(t.log) <= 4
            /\ \A i \in 1..Len(t.log) :
                /\ t.log[i].do = StepsOf(t.op)[i].do
                /\ t.log[i].arg = StepsOf(t.op)[i].arg
                /\ i < Len(t.log) => t.log[i].outcome = "ok"
            /\ t.running =>
                /\ Len(t.log) \in 1..3
                /\ t.log[Len(t.log)].outcome = "ok"
                /\ ~t.result.done
            /\ ~t.running =>
                /\ t.result.done
                /\ t.result.ok <=>
                     Len(t.log) = 4 /\ t.log[4].outcome = "ok"
                /\ ~t.result.ok =>
                     t.log = << >> \/ t.log[Len(t.log)].outcome # "ok"
                /\ t.log = << >> => ~device.some
            /\ (t.op = "get_screenshot" /\ t.result.ok) =>
                   /\ t.result.value = << "compressed_screenshot.png" >>
                   /\ local.compressed # Absent

\* a screenshot call ended at its failed pull: nothing was deleted on the
\* device and nothing was returned
C18_Witness ==
    /\ task["first"].op = "get_screenshot"
    /\ ~task["first"].running
    /\ Len(task["first"].log) = 2
    /\ task["first"].log[2].outcome = "failed"
    /\ ~task["first"].result.ok
    /\ remote.png # Absent

-----------------------------------------------------------------------------
(* Properties of calls that share the fixed paths *)

\* the local file a call's pull writes
PulledFile(op) == IF op = "get_uilayout" THEN local.xml ELSE local.png

\* C19: a get_uilayout or get_screenshot call during which no other call of
\* the same operation was in progress works on its own files: its pull
\* finds the on-device file, the local file it processes is the one its
\* own pull wrote, and the result it returns was made from that file.
\* Nothing but this order of the calls gives the guarantee: a call that
\* overlapped another one is not covered.
C19_SerializedCallsUseOwnFiles ==
    \A c \in Callers :
        (task[c].op # "" /\ ~task[c].overlapped) =>
            /\ \A i \in 1..Len(task[c].log) : task[c].log[i].outcome # "missing"
            /\ (task[c].running /\ Len(task[c].log) >= 2) =>
                   PulledFile(task[c].op).by = c
            /\ (~task[c].running /\ task[c].result.ok) => task[c].source = c

\* the second caller's call ran alone and returned its own dump; the first
\* caller's call overlapped another one and returned the other's dump
C19_Witness ==
    /\ task["second"].op = "get_uilayout"
    /\ ~task["second"].running
    /\ ~task["second"].overlapped
    /\ task["second"].result.ok
    /\ task["second"].source = "second"
    /\ task["first"].op = "get_uilayout"
    /\ ~task["first"].running
    /\ task["first"].overlapped
    /\ task["first"].result.ok
    /\ task["first"].source # "first"

-----------------------------------------------------------------------------
(* Properties of a session across failing calls *)

\* the call is made next, is run on the selected device, and returns
ReturnsNext(call) ==
    /\ call
    /\ result'.ok
    /\ shell_log' # << >>
    /\ shell_log'[1].serial = selected_device_name.s

\* the first statement of an operation is run next, and it returns
BeginsNext(step) ==
    /\ step
    /\ task'["first"].running
    /\ task'["first"].log # << >>

\* C16: after construction and after any tool calls, failed or not, the
\* session holds the device it was constructed with, the process has not
\* exited, and a further call of each tool is run on that device and can
\* succeed.
C16_SessionUsableAfterAnyCalls ==
    (pc = "ready" /\ Idle) =>
        /\ exit_status = 0
        /\ error = NoError
        /\ device = selected_device_name
        /\ shell_log # << >> => shell_log[1].serial = selected_device_name.s
        /\ ENABLED ReturnsNext(GetPackages({PackageA}))
        /\ ENABLED ReturnsNext(ExecuteAdbShellCommand({PrefixAdbShell \o << "l", "s" >>},
                                                      {<< "o", "k" >>}))
        /\ ENABLED ReturnsNext(GetPackageActionIntents({ComDot \o << "a" >>},
                                   {ActivityResolverTable \o LineAndroid}))
        /\ ENABLED BeginsNext(GetUiLayoutDump("first", FewContents))
        /\ ENABLED BeginsNext(TakeScreenshotCapture("first"))
-----------------------------------------------------------------------------
(* Properties of the startup of the server *)

\* config.yaml was there and loading it failed
ConfigFailed ==
    /\ config_file # CfgUnread
    /\ config_file.file # "missing"
    /\ TryLoad(config_file).raised

\* AdbDeviceManager(device_name) was called and selected no device
SelectionFailed == InitRan /\ selected_device_name = None

\* the transport has handed a tool call to its function
Dispatched == result.done \/ \E c \in Callers : task[c].op # ""

\* C17: the configuration is loaded before the session is constructed, the
\* session is constructed around a selected device before the tools are
\* registered, and the tools are registered before a transport serves; every
\* dispatched tool call finds a device bound; and when loading the
\* configuration or selecting the device fails, the process has exited with a
\* status other than 0 and has started no transport.
C17_OrderedStartupDeviceBoundAtDispatch ==
    /\ InitRan => (config_file # CfgUnread /\ ~ConfigFailed)
    /\ registered # {} => (InitRan /\ selected_device_name # None)
    /\ transport # "none" => (registered = ToolNames /\ pc = "serving")
    /\ Dispatched => (transport # "none" /\ device # None)
    /\ (ConfigFailed \/ SelectionFailed) =>
           /\ pc = "exited"
           /\ exit_status # 0
           /\ transport = "none"
           /\ ~Dispatched

====
